---- MODULE Spec2Model ----
(***************************************************************************)
(* Model of the asynchronous AI-orchestration core of ai-notes-maker:      *)
(*   - the attachment summary job (backend/routes.py: upload_attachment,   *)
(*     regenerate_summary, cancel_summary, delete_attachment and the       *)
(*     run_in_thread closures they spawn),                                 *)
(*   - the cooldown gate (backend/summary_functions.py:                    *)
(*     APICooldownManager.wait_if_needed) and the summarizers behind it,   *)
(*   - the model calls of the chat path (backend/services.py).             *)
(* One attachment is modelled; every background execution that is ever     *)
(* spawned for it is a thread 1..MaxThreads with its own program counter.  *)
(* Time is counted in ticks of 1.25 s.                                     *)
(***************************************************************************)
EXTENDS Integers, FiniteSets, Sequences, TLC

\* ---- bounds -------------------------------------------------------------
\* number of background executions ever spawned (by upload and regenerate)
MaxThreads == 2
\* number of pieces an argument of a text function is put together from
MaxPieces == 3
\* number of pieces of an argument made of dollar signs and plain text only
MaxMathPieces == 5
\* ---- program constants --------------------------------------------------
\* min_delay_seconds = 2.5, i.e. two ticks of 1.25 s
MinDelay == 2
\* time.time() when the process starts: at least min_delay after _last_call_time = 0
StartClock == MinDelay

Tids == 1..MaxThreads

VARIABLES
    status,     \* Attachment.summary_status as persisted ("absent" before upload, "deleted" after delete)
    summary,    \* Attachment.summary as persisted
    file,       \* the uploaded file on disk: "none" before upload, "ok" or "empty" (zero bytes) while it exists, "missing" once gone
    apiKey,     \* API_KEY and client are set
    thr,        \* the background executions: position and locals of each run_in_thread
    lock,       \* APICooldownManager._lock: 0 when free, else the thread inside
    lastCall,   \* APICooldownManager._last_call_time
    clock,      \* time.time()
    \* history of the run, read by the properties only:
    ungated,    \* a model-service call was made that no gate acquire preceded
    termWrites, \* number of terminal writes (complete/failed) that background executions applied since the last regenerate
    overlap,    \* a regenerate was accepted while the execution of an earlier regenerate was still alive
    hit,        \* the executions whose model call was in flight when a cancel of status 'processing' took effect
    \* the chat pipeline and the text functions of services.py:
    chat,       \* the chat request being served by chat_with_ai and what it returned
    text,       \* the argument a text function of services.py is applied to, and what it returned for it
    req,        \* the request a chat route of routes.py is serving, the rows it reads and what it replied
    img         \* the call of search_and_download_images: its position, its loop variables and what it did

vars == <<status, summary, file, apiKey, thr, lock, lastCall, clock, ungated, termWrites, overlap, hit,
          chat, text, req, img>>

\* the variables of the summary job and of the cooldown gate
jobVars == <<status, summary, file, apiKey, thr, lock, lastCall, clock, ungated, termWrites, overlap, hit>>

\* ---- values -------------------------------------------------------------
Statuses == {"pending", "processing", "complete", "failed", "cancelled"}

NullSummary     == [kind |-> "null", by |-> 0]
\* 'Summary generation cancelled by user'
CancelMessage   == [kind |-> "cancelled_by_user", by |-> 0]
\* 'File not found'
FileNotFound    == [kind |-> "file_not_found", by |-> 0]
\* f"Failed to generate summary: {str(e)[:100]}", written by thread t
FailedMessage(t) == [kind |-> "failed_to_generate", by |-> t]
\* response.text.strip() obtained by thread t
SummaryText(t)  == [kind |-> "text", by |-> t]
\* f"Error generating summary: {str(e)}" returned to thread t, e raised by the model call
ErrorText(t)    == [kind |-> "error_text", by |-> t]
\* f"Error generating summary: {str(e)}" returned to thread t, e raised by open()
FileErrorText(t) == [kind |-> "file_error_text", by |-> t]
\* "Summary unavailable (API Key missing)."
NoKeyText(t)    == [kind |-> "no_api_key", by |-> t]

IdleThread == [pc |-> "idle", kind |-> "none", wake |-> 0, gated |-> FALSE,
               res |-> NullSummary]

\* a table in which every row that was ever read is still there
RowAlwaysThere == TRUE

Exists == status \in Statuses

\* the row as Attachment.query.get(attachment_id) returns it: None once deleted
QueryGet == IF Exists THEN status ELSE "none"

\* the background executions that were started and have not ended
Alive(k) == {t \in Tids : thr[t].kind = k /\ thr[t].pc \notin {"idle", "done", "crashed"}}

\* next unused thread id, 0 when MaxThreads executions were spawned
FreeTid == IF \E t \in Tids : thr[t].pc = "idle"
           THEN CHOOSE t \in Tids : thr[t].pc = "idle" /\ \A u \in Tids : u < t => thr[u].pc # "idle"
           ELSE 0

\* a thread start that starts nothing
SpawnNone(t, k) == thr

\* threading.Thread(target=run_in_thread).start()
Spawn(t, k) == [thr EXCEPT ![t] = [IdleThread EXCEPT !.pc = "read1", !.kind = k]]

\* The process starts with no attachment, or with an attachment that an
\* earlier run of the process uploaded and summarized (the database and the
\* upload folder outlive the process, its threads do not).
ProcessStart ==
    /\ thr = [t \in Tids |-> IdleThread]
    /\ lock = 0
    /\ lastCall = 0
    /\ clock = StartClock
    /\ ungated = FALSE
    /\ termWrites = 0
    /\ overlap = FALSE
    /\ hit = {}

\* no attachment yet, no API key configured
NoAttachment ==
    /\ status = "absent" /\ summary = NullSummary /\ file = "none"
    /\ apiKey = FALSE

\* chat_with_ai has not returned
NoResult == [response_text |-> <<>>, has_updated_html |-> FALSE, updated_html |-> <<>>,
             requires_confirmation |-> FALSE, has_changes |-> FALSE, changes |-> <<>>]

\* generate_content has not been called
NoRaw == [kind |-> "none", text |-> <<>>, htmlKind |-> "absent", html |-> <<>>, rc |-> FALSE,
          changesKind |-> "absent", changes |-> <<>>]

\* a chat request about a note of plain text, with no PDF attached, that is
\* waiting to be served
NoChat == [pc |-> "request", note |-> <<"a">>, mode |-> FALSE, pdf |-> "none",
           contents |-> "none", raw |-> NoRaw, failure |-> "none", result |-> NoResult]

\* what a chat route replies: nothing yet
NoBody == [kind |-> "none", need_files |-> FALSE, file_numbers |-> <<>>,
           result |-> NoResult, analyzed_files |-> <<>>]

\* no chat route is serving a request
NoReq == [op |-> "none", pc |-> "request", check |-> "ok", note |-> <<"a">>,
          attachments |-> <<>>, file_numbers |-> <<>>, history |-> <<>>,
          before |-> <<>>, chat_history |-> <<>>,
          file_attachments |-> <<>>, loaded |-> <<>>, calls |-> 0, acquires |-> 0,
          response_data |-> NoResult, code |-> 0, body |-> NoBody]

\* search_and_download_images has not been called
NoImg == [pc |-> "idle", limit |-> 0, attempt |-> 0, wait |-> 0, results |-> 0, idx |-> 0,
          downloaded |-> 0, log |-> <<>>]

\* no text function has been called
NoText == [fn |-> "none", x |-> <<>>, y1 |-> <<>>, y2 |-> <<>>, n |-> 0]

Init ==
    /\ \/ status = "absent" /\ summary = NullSummary /\ file = "none"
       \/ status = "complete" /\ summary = SummaryText(0) /\ file = "ok"
    /\ apiKey \in BOOLEAN
    /\ ProcessStart
    /\ chat = NoChat
    /\ text = NoText
    /\ req = NoReq
    /\ img = NoImg

\* ---- guards of the background writes ---------------------------------------
\* the tests the background execution makes on the row `seen` it has just read
\* (None, or the row's summary_status)
\* routes.py:303 `if attachment:` / routes.py:414 `if att and att.summary_status == 'pending':`
GuardProcessing(kind, seen) ==
    IF kind = "upload" THEN seen # "none" ELSE seen = "pending"

\* routes.py:312 `if attachment:` / routes.py:423 `if att and att.summary_status == 'processing':`
GuardComplete(kind, seen) ==
    IF kind = "upload" THEN seen # "none" ELSE seen = "processing"

\* routes.py:322 `if attachment:` / routes.py:433 `if att:`
GuardFailed(kind, seen) == seen # "none"

\* where an exception raised in the try body of run_in_thread goes: the
\* `except Exception` handler
OnBodyError == "hread"

\* a handler whose inner try/except is missing: the exception leaves the thread
HandlerErrorEscapes == "crashed"

\* where an exception raised inside the handler goes: `except: pass`
OnHandlerError == "done"

\* ---- the cooldown gate -------------------------------------------------------
\* a gate that does not wait for the lock
LockIgnored(l) == TRUE

\* `with self._lock:` can be entered
LockFree(l) == l = 0

\* a wait that is one tick short
WaitTimeShort(now, last) ==
    IF now - last < MinDelay THEN MinDelay - (now - last) - 1 ELSE 0

\* wait_time of wait_if_needed: 0 when no sleep is needed
WaitTime(now, last) ==
    IF now - last < MinDelay THEN MinDelay - (now - last) ELSE 0

\* a gate that returns without releasing the lock
ReleaseForgotten(l) == l

\* the lock after the `with self._lock:` block is left
Release(l) == 0

\* a summarizer that returns None
SummarizeNothing(t, outcome) == NullSummary

\* ---- summarize_pdf / summarize_image ---------------------------------------
\* what the summarizer returns for the outcome of its try block
SummarizeResult(t, outcome) ==
    CASE outcome = "ok"     -> SummaryText(t)
      [] outcome = "raise"  -> ErrorText(t)
      [] outcome = "nofile" -> FileErrorText(t)

\* ---- request handlers ------------------------------------------------------
\* a check of the upload folder that finds every file
PathAssumed(f) == TRUE

\* os.path.exists(file_path)
PathExists(f) == f \in {"ok", "empty"}

\* what file.save(filepath) writes: the bytes of the upload, which may be none
UploadedFiles == {"ok", "empty"}

\* POST /notes/<id>/attachments
upload_attachment ==
    /\ status = "absent"
    /\ FreeTid # 0
    /\ \E f \in UploadedFiles : file' = f
    /\ status' = "pending"
    /\ summary' = NullSummary
    /\ thr' = Spawn(FreeTid, "upload")
    /\ termWrites' = 0
    /\ UNCHANGED <<apiKey, lock, lastCall, clock, ungated, overlap, hit, chat, text, req, img>>

\* POST /attachments/<id>/regenerate-summary
regenerate_summary ==
    /\ Exists
    /\ IF ~PathExists(file)
       THEN /\ status' = "failed"
            /\ summary' = FileNotFound
            /\ UNCHANGED <<thr, overlap>>
       ELSE /\ FreeTid # 0
            /\ status' = "pending"
            /\ summary' = NullSummary
            /\ thr' = Spawn(FreeTid, "regen")
            /\ overlap' = (overlap \/ Alive("regen") # {})
    /\ termWrites' = 0
    /\ UNCHANGED <<file, apiKey, lock, lastCall, clock, ungated, hit, chat, text, req, img>>

\* a cancel that is applied whatever the status is
CancellableAlways(s) == TRUE

\* `if attachment.summary_status in ['pending', 'processing']`
Cancellable(s) == s \in {"pending", "processing"}

\* POST /attachments/<id>/cancel-summary
cancel_summary ==
    /\ Exists
    /\ IF Cancellable(status)
       THEN /\ status' = "cancelled"
            /\ summary' = CancelMessage
            /\ hit' = IF status = "processing"
                      THEN hit \cup {t \in Tids : thr[t].pc = "calling"}
                      ELSE hit
       ELSE UNCHANGED <<status, summary, hit>>
    /\ UNCHANGED <<file, apiKey, thr, lock, lastCall, clock, ungated, termWrites, overlap, chat, text, req, img>>

\* DELETE /attachments/<id>
delete_attachment ==
    /\ Exists
    /\ status' = "deleted"
    /\ summary' = NullSummary
    /\ file' = "missing"
    /\ UNCHANGED <<apiKey, thr, lock, lastCall, clock, ungated, termWrites, overlap, hit, chat, text, req, img>>

\* the file disappears from the upload folder behind the application's back
FileLost ==
    /\ PathExists(file)
    /\ Exists
    /\ file' = "missing"
    /\ UNCHANGED <<status, summary, apiKey, thr, lock, lastCall, clock, ungated, termWrites, overlap, hit, chat, text, req, img>>

\* time passes; the clock is advanced only as far as the gate can tell:
\* once min_delay has elapsed since the last recorded call, more time changes
\* nothing
Tick ==
    /\ clock - lastCall < MinDelay
    /\ clock' = clock + 1
    /\ UNCHANGED <<status, summary, file, apiKey, thr, lock, lastCall, ungated, termWrites, overlap, hit, chat, text, req, img>>

\* ---- the background execution run_in_thread ----------------------------------
Set(t, f) == [thr EXCEPT ![t] = f]

\* `attachment = Attachment.query.get(attachment_id)` and the test of the row
\* that was read, before the write of 'processing'
T_Read1(t) ==
    /\ thr[t].pc = "read1"
    /\ thr' = Set(t, [thr[t] EXCEPT !.pc = IF GuardProcessing(thr[t].kind, QueryGet)
                                          THEN "write1" ELSE "summ"])
    /\ UNCHANGED <<status, summary, file, apiKey, lock, lastCall, clock, ungated, termWrites, overlap, hit, chat, text, req, img>>

\* `summary_status = 'processing'; db.session.commit()`: the commit succeeds,
\* or raises: a storage error, or an UPDATE that matches no row because the
\* attachment was deleted meanwhile
T_Write1(t) ==
    /\ thr[t].pc = "write1"
    /\ \E ok \in BOOLEAN :
         IF ok /\ Exists
         THEN /\ status' = "processing"
              /\ thr' = Set(t, [thr[t] EXCEPT !.pc = "summ"])
         ELSE /\ thr' = Set(t, [thr[t] EXCEPT !.pc = OnBodyError])
              /\ UNCHANGED status
    /\ UNCHANGED <<summary, file, apiKey, lock, lastCall, clock, ungated, termWrites, overlap, hit, chat, text, req, img>>

\* summarize_*: `if not API_KEY or not client: return "Summary unavailable..."`
T_NoKey(t) ==
    /\ thr[t].pc = "summ"
    /\ ~apiKey
    /\ thr' = Set(t, [thr[t] EXCEPT !.pc = "read2", !.res = NoKeyText(t)])
    /\ UNCHANGED <<status, summary, file, apiKey, lock, lastCall, clock, ungated, termWrites, overlap, hit, chat, text, req, img>>

\* wait_if_needed, lines 27-33: take the lock, read the clock, compute the wait
T_GateEnter(t) ==
    /\ thr[t].pc = "summ"
    /\ apiKey
    /\ LockFree(lock)
    /\ lock' = t
    /\ LET w == WaitTime(clock, lastCall)
       IN  thr' = Set(t, IF w > 0
                         THEN [thr[t] EXCEPT !.pc = "sleep", !.wake = clock + w]
                         ELSE [thr[t] EXCEPT !.pc = "record"])
    /\ UNCHANGED <<status, summary, file, apiKey, lastCall, clock, ungated, termWrites, overlap, hit, chat, text, req, img>>

\* wait_if_needed, lines 34-36 and the end of the with block: the sleep, if
\* any, is over; record the timestamp, release the lock, return
T_GateRecord(t) ==
    /\ \/ thr[t].pc = "record"
       \/ thr[t].pc = "sleep" /\ clock >= thr[t].wake
    /\ lastCall' = clock
    /\ lock' = Release(lock)
    /\ thr' = Set(t, [thr[t] EXCEPT !.pc = "open", !.wake = 0, !.gated = TRUE])
    /\ UNCHANGED <<status, summary, file, apiKey, clock, ungated, termWrites, overlap, hit, chat, text, req, img>>

\* summarize_*: read the file and send the request to the model service;
\* a missing file raises inside the try block
T_CallStart(t) ==
    /\ thr[t].pc = "open"
    /\ IF PathExists(file)
       THEN /\ ungated' = (ungated \/ ~thr[t].gated)
            /\ thr' = Set(t, [thr[t] EXCEPT !.pc = "calling"])
       ELSE /\ thr' = Set(t, [thr[t] EXCEPT !.pc = "read2", !.res = SummarizeResult(t, "nofile")])
            /\ UNCHANGED ungated
    /\ UNCHANGED <<status, summary, file, apiKey, lock, lastCall, clock, termWrites, overlap, hit, chat, text, req, img>>

\* the model service answers, or the call raises
T_CallReturn(t) ==
    /\ thr[t].pc = "calling"
    /\ \E outcome \in {"ok", "raise"} :
         thr' = Set(t, [thr[t] EXCEPT !.pc = "read2", !.gated = FALSE,
                                      !.res = SummarizeResult(t, outcome)])
    /\ UNCHANGED <<status, summary, file, apiKey, lock, lastCall, clock, ungated, termWrites, overlap, hit, chat, text, req, img>>

\* `attachment = Attachment.query.get(attachment_id)` and the test of the row
\* that was read, before the write of the result
T_Read2(t) ==
    /\ thr[t].pc = "read2"
    /\ thr' = Set(t, [thr[t] EXCEPT !.pc = IF GuardComplete(thr[t].kind, QueryGet)
                                          THEN "write2" ELSE "done"])
    /\ hit' = IF GuardComplete(thr[t].kind, QueryGet) THEN hit ELSE hit \ {t}
    /\ UNCHANGED <<status, summary, file, apiKey, lock, lastCall, clock, ungated, termWrites, overlap, chat, text, req, img>>

\* `summary = summary; summary_status = 'complete'; db.session.commit()`
T_Write2(t) ==
    /\ thr[t].pc = "write2"
    /\ \E ok \in BOOLEAN :
         IF ok /\ Exists
         THEN /\ status' = "complete"
              /\ summary' = thr[t].res
              /\ termWrites' = termWrites + 1
              /\ thr' = Set(t, [thr[t] EXCEPT !.pc = "done"])
         ELSE /\ thr' = Set(t, [thr[t] EXCEPT !.pc = OnBodyError])
              /\ UNCHANGED <<status, summary, termWrites>>
    /\ hit' = hit \ {t}
    /\ UNCHANGED <<file, apiKey, lock, lastCall, clock, ungated, overlap, chat, text, req, img>>

\* the handler's `Attachment.query.get(attachment_id)` and `if attachment:`
T_HRead(t) ==
    /\ thr[t].pc = "hread"
    /\ thr' = Set(t, [thr[t] EXCEPT !.pc = IF GuardFailed(thr[t].kind, QueryGet)
                                          THEN "hwrite" ELSE "done"])
    /\ UNCHANGED <<status, summary, file, apiKey, lock, lastCall, clock, ungated, termWrites, overlap, hit, chat, text, req, img>>

\* the handler's `summary_status = 'failed'; summary = ...; db.session.commit()`;
\* an exception here is swallowed
T_HWrite(t) ==
    /\ thr[t].pc = "hwrite"
    /\ \E ok \in BOOLEAN :
         IF ok /\ Exists
         THEN /\ status' = "failed"
              /\ summary' = FailedMessage(t)
              /\ termWrites' = termWrites + 1
              /\ thr' = Set(t, [thr[t] EXCEPT !.pc = "done"])
         ELSE /\ thr' = Set(t, [thr[t] EXCEPT !.pc = OnHandlerError])
              /\ UNCHANGED <<status, summary, termWrites>>
    /\ UNCHANGED <<file, apiKey, lock, lastCall, clock, ungated, overlap, hit, chat, text, req, img>>

run_in_thread ==
    \E t \in Tids :
        \/ T_Read1(t) \/ T_Write1(t)
        \/ T_NoKey(t) \/ T_GateEnter(t) \/ T_GateRecord(t)
        \/ T_CallStart(t) \/ T_CallReturn(t)
        \/ T_Read2(t) \/ T_Write2(t)
        \/ T_HRead(t) \/ T_HWrite(t)

Next ==
    \/ upload_attachment
    \/ regenerate_summary
    \/ cancel_summary
    \/ delete_attachment
    \/ FileLost
    \/ Tick
    \/ run_in_thread

Spec == Init /\ [][Next]_vars

\* the steps of the background execution t
Thread(t) ==
    \/ T_Read1(t) \/ T_Write1(t)
    \/ T_NoKey(t) \/ T_GateEnter(t) \/ T_GateRecord(t)
    \/ T_CallStart(t) \/ T_CallReturn(t)
    \/ T_Read2(t) \/ T_Write2(t)
    \/ T_HRead(t) \/ T_HWrite(t)

\* What the scheduling guarantees: the clock keeps advancing, and every
\* thread that has been started takes its next step when it can take it for
\* good: the commits, the model call and time.sleep return, and a thread
\* that waits for the lock gets it once the lock stays free. Nothing is
\* assumed about the requests.
Fairness ==
    /\ WF_vars(Tick)
    /\ \A t \in Tids : WF_vars(Thread(t))

SpecLive == Init /\ [][Next]_vars /\ Fairness

\* ---- the ownership check of the attachment routes ---------------------------
\* get_jwt_identity(): the owner of the attachment's note, and another user
Owner == 1
Users == {1, 2}

\* a route that serves every user
AuthorizedAnyone(current_user_id) == TRUE

\* `if not note or note.user_id != current_user_id: return ..., 403`
Authorized(current_user_id) == current_user_id = Owner

\* the reply of an attachment route to the request op
Reply(op, code) == [NoReq EXCEPT !.op = op, !.pc = "returned", !.code = code]

\* GET /attachments/status/<id>, asked by current_user_id
get_attachment_status(current_user_id) ==
    /\ Exists
    /\ req' = Reply("status", IF Authorized(current_user_id) THEN 200 ELSE 403)
    /\ UNCHANGED <<jobVars, chat, text, img>>

\* the routes that change the row, asked by current_user_id: the request of
\* another user than the owner is answered 403 before anything is done
regenerate_summary_by(current_user_id) ==
    IF Authorized(current_user_id)
    THEN regenerate_summary
    ELSE /\ Exists
         /\ req' = Reply("regenerate", 403)
         /\ UNCHANGED <<jobVars, chat, text, img>>

cancel_summary_by(current_user_id) ==
    IF Authorized(current_user_id)
    THEN cancel_summary
    ELSE /\ Exists
         /\ req' = Reply("cancel", 403)
         /\ UNCHANGED <<jobVars, chat, text, img>>

delete_attachment_by(current_user_id) ==
    IF Authorized(current_user_id)
    THEN delete_attachment
    ELSE /\ Exists
         /\ req' = Reply("delete", 403)
         /\ UNCHANGED <<jobVars, chat, text, img>>

\* One summary job and the requests about it: the owner uploads, polls,
\* cancels and deletes, and another user tries every route, regenerate
\* included, while the background execution runs. (The jobs that the owner's
\* own regenerate requests start are followed in Spec.)
NextAuth ==
    \/ upload_attachment
    \/ \E u \in Users : get_attachment_status(u)
    \/ \E u \in Users \ {Owner} : regenerate_summary_by(u)
    \/ \E u \in Users : cancel_summary_by(u)
    \/ \E u \in Users : delete_attachment_by(u)
    \/ Tick
    \/ run_in_thread

SpecAuth == Init /\ [][NextAuth]_vars

\* the callers of the cooldown gate: the executions that upload and
\* regenerate spawn, and the clock; the gate reads nothing of the row, so the
\* requests that spawn nothing are left out
NextGate ==
    \/ upload_attachment
    \/ regenerate_summary
    \/ Tick
    \/ run_in_thread

SpecGate == Init /\ [][NextGate]_vars /\ Fairness

\* ---- text functions of services.py ----------------------------------------
\* Strings are sequences of characters; a character is a one-character
\* string, except the backtick, which is written by name.
BS    == "\\"
QUOTE == "\""
BACKTICK == "backtick"


RECURSIVE Concat(_)
Concat(ps) == IF ps = <<>> THEN <<>> ELSE Head(ps) \o Concat(Tail(ps))

\* the sequences of at most k pieces out of P
PieceSeqs(P, k) == UNION {[1..m -> P] : m \in 0..k}

\* str.strip() without arguments removes leading and trailing whitespace
Whitespace == {" "}

RECURSIVE LStrip(_)
LStrip(s) == IF s # <<>> /\ Head(s) \in Whitespace THEN LStrip(Tail(s)) ELSE s

RECURSIVE RStrip(_)
RStrip(s) ==
    IF s # <<>> /\ s[Len(s)] \in Whitespace THEN RStrip(SubSeq(s, 1, Len(s) - 1)) ELSE s

Strip(s) == RStrip(LStrip(s))

StartsWith(s, p) == Len(s) >= Len(p) /\ SubSeq(s, 1, Len(p)) = p

\* str.replace(old, ''): the non-overlapping occurrences of old, found from
\* left to right, are removed
RECURSIVE Remove(_, _)
Remove(s, old) ==
    IF s = <<>> THEN <<>>
    ELSE IF StartsWith(s, old) THEN Remove(SubSeq(s, Len(old) + 1, Len(s)), old)
    ELSE <<Head(s)>> \o Remove(Tail(s), old)

Fence     == <<BACKTICK, BACKTICK, BACKTICK>>
FenceJson == Fence \o <<"j", "s", "o", "n">>

\* json_str.strip().replace(FenceJson, '').replace(Fence, '').strip(), line 355
StripFences(s) == Strip(Remove(Remove(Strip(s), FenceJson), Fence))

\* `if next_char in '"\\/nr'`
KeptAfterBackslash == {QUOTE, BS, "/", "n", "r"}

\* string.hexdigits, as far as the alphabet of the arguments goes
HexDigits == {"0", "f"}

\* a scan that doubles every backslash it meets
RECURSIVE DoubleEveryBackslash(_)
DoubleEveryBackslash(s) ==
    IF s = <<>> THEN <<>>
    ELSE IF Head(s) = BS THEN <<BS, BS>> \o DoubleEveryBackslash(Tail(s))
    ELSE <<Head(s)>> \o DoubleEveryBackslash(Tail(s))

\* a scan that also keeps the escapes \t, \b and \f
RECURSIVE ScanKeepingJsonEscapes(_)
ScanKeepingJsonEscapes(s) ==
    IF s = <<>> THEN <<>>
    ELSE IF Head(s) # BS THEN <<Head(s)>> \o ScanKeepingJsonEscapes(Tail(s))
    ELSE IF Len(s) >= 2 /\ s[2] \in KeptAfterBackslash \cup {"t", "b", "f"}
         THEN <<BS, s[2]>> \o ScanKeepingJsonEscapes(SubSeq(s, 3, Len(s)))
    ELSE IF Len(s) >= 6 /\ s[2] = "u" /\ \A k \in 3..6 : s[k] \in HexDigits
         THEN SubSeq(s, 1, 6) \o ScanKeepingJsonEscapes(SubSeq(s, 7, Len(s)))
    ELSE <<BS, BS>> \o ScanKeepingJsonEscapes(Tail(s))

\* the while loop of clean_json_string over the rest s of the string
RECURSIVE Scan(_)
Scan(s) ==
    IF s = <<>> THEN <<>>
    ELSE IF Head(s) # BS THEN <<Head(s)>> \o Scan(Tail(s))
    ELSE IF Len(s) >= 2
         THEN IF s[2] \in KeptAfterBackslash
              THEN <<BS, s[2]>> \o Scan(SubSeq(s, 3, Len(s)))
              ELSE IF s[2] = "u" /\ Len(s) >= 6 /\ \A k \in 3..6 : s[k] \in HexDigits
                   THEN SubSeq(s, 1, 6) \o Scan(SubSeq(s, 7, Len(s)))
                   ELSE <<BS, BS>> \o Scan(Tail(s))
         ELSE <<BS, BS>> \o Scan(Tail(s))

clean_json_string(json_str) == Scan(StripFences(json_str))

\* the pieces the arguments of clean_json_string are put together from: the
\* characters the scan and the fence removal tell apart, and the runs that
\* make a fence or a \uXXXX escape
RepairPieces ==
    {<<c>> : c \in {BS, QUOTE, "/", BACKTICK, "n", "r", "u", "t", "f", "0", " "}}
        \cup {Fence, FenceJson, <<"j", "s", "o", "n">>, <<"0", "f", "0", "0">>}

\* the pieces the inside of a JSON string literal is put together from
LiteralPieces ==
    {<<c>> : c \in {BS, QUOTE, "/", "n", "u", "t", " "}} \cup {<<"0", "f", "0", "0">>}

\* the arguments: every string of at most MaxPieces pieces, and every string of
\* at most MaxPieces pieces put between quotes (a JSON string literal or a
\* near miss of one)
RepairInputs ==
    {Concat(ps) : ps \in PieceSeqs(RepairPieces, MaxPieces)}
        \cup {<<QUOTE>> \o Concat(ps) \o <<QUOTE>> : ps \in PieceSeqs(LiteralPieces, MaxPieces)}

InitRepair ==
    /\ NoAttachment
    /\ ProcessStart
    /\ chat = NoChat
    /\ req = NoReq
    /\ img = NoImg
    /\ text \in {[fn |-> "clean_json_string", x |-> s, y1 |-> <<>>, y2 |-> <<>>, n |-> 0] :
                     s \in RepairInputs}

\* clean_json_string(x)
CallRepair ==
    /\ text.fn = "clean_json_string"
    /\ text.n = 0
    /\ text' = [text EXCEPT !.y1 = clean_json_string(text.x), !.n = 1]
    /\ UNCHANGED <<jobVars, chat, req, img>>

\* clean_json_string applied to what it returned
CallRepairAgain ==
    /\ text.fn = "clean_json_string"
    /\ text.n = 1
    /\ text' = [text EXCEPT !.y2 = clean_json_string(text.y1), !.n = 2]
    /\ UNCHANGED <<jobVars, chat, req, img>>

NextRepair ==
    \/ CallRepair
    \/ CallRepairAgain

SpecRepair == InitRepair /\ [][NextRepair]_vars

\* ---- format_latex_for_tiptap ------------------------------------------------
\* The markup the rewriter inserts is written as four characters of its own:
\* none of the characters of the inserted text is a dollar sign, a backslash,
\* a bracket, a parenthesis or a newline, so no pattern can tell them from
\* other plain text.
\* '<div data-type="block-math" data-latex="' and '"></div>'
DivOpen   == "<div data-type=block-math data-latex="
DivClose  == "></div>"
\* '<span data-type="inline-math" data-latex="' and '"></span>'
SpanOpen  == "<span data-type=inline-math data-latex="
SpanClose == "></span>"
NEWLINE   == "\n"

\* the position of the first occurrence of d in s that starts at i or later,
\* 0 if there is none
RECURSIVE Find(_, _, _)
Find(s, d, i) ==
    IF i + Len(d) - 1 > Len(s) THEN 0
    ELSE IF SubSeq(s, i, i + Len(d) - 1) = d THEN i
    ELSE Find(s, d, i + 1)

Chars(s) == {s[i] : i \in 1..Len(s)}

\* re.sub(open (.*?) close, before \1 after, s): from left to right, at each
\* position where open matches, the shortest body up to the next close is
\* taken; without DOTALL the body cannot hold a newline
RECURSIVE SubDelimited(_, _, _, _, _, _)
SubDelimited(s, open, close, before, after, dotall) ==
    IF s = <<>> THEN <<>>
    ELSE LET j    == IF StartsWith(s, open) THEN Find(s, close, Len(open) + 1) ELSE 0
             body == SubSeq(s, Len(open) + 1, j - 1)
         IN IF j # 0 /\ (dotall \/ NEWLINE \notin Chars(body))
            THEN <<before>> \o body \o <<after>>
                     \o SubDelimited(SubSeq(s, j + Len(close), Len(s)), open, close, before, after, dotall)
            ELSE <<Head(s)>> \o SubDelimited(Tail(s), open, close, before, after, dotall)

\* re.sub(r'\$([^$]+)\$', span, s): a dollar sign, one or more characters
\* other than the dollar sign, a dollar sign
RECURSIVE SubInlineDollar(_)
SubInlineDollar(s) ==
    IF s = <<>> THEN <<>>
    ELSE LET j == IF Head(s) = "$" THEN Find(s, <<"$">>, 2) ELSE 0
         IN IF j > 2
            THEN <<SpanOpen>> \o SubSeq(s, 2, j - 1) \o <<SpanClose>>
                     \o SubInlineDollar(SubSeq(s, j + 1, Len(s)))
            ELSE <<Head(s)>> \o SubInlineDollar(Tail(s))

format_latex_for_tiptap(t) ==
    LET t1 == SubDelimited(t, <<"$", "$">>, <<"$", "$">>, DivOpen, DivClose, TRUE)
        t2 == SubDelimited(t1, <<BS, "[">>, <<BS, "]">>, DivOpen, DivClose, TRUE)
        t3 == SubInlineDollar(t2)
        t4 == SubDelimited(t3, <<BS, "(">>, <<BS, ")">>, SpanOpen, SpanClose, FALSE)
    IN t4

\* arguments made of dollar signs and plain text
DollarPieces == {<<"$">>, <<"$", "$">>, <<"a">>}

\* arguments with every delimiter, plain text and a newline
LatexPieces ==
    DollarPieces \cup {<<BS, "(">>, <<BS, ")">>, <<BS, "[">>, <<BS, "]">>, <<NEWLINE>>}

\* the pieces of a math body: no dollar sign
BodyPieces == LatexPieces \ {<<"$">>, <<"$", "$">>}

\* the arguments: strings of dollar signs and plain text, strings of all
\* pieces, and bodies of at most MaxPieces pieces put between $$ and between $
LatexInputs ==
    {Concat(ps) : ps \in PieceSeqs(DollarPieces, MaxMathPieces)}
        \cup {Concat(ps) : ps \in PieceSeqs(LatexPieces, MaxPieces)}
        \cup {<<"$", "$">> \o Concat(ps) \o <<"$", "$">> : ps \in PieceSeqs(BodyPieces, MaxPieces)}
        \cup {<<"$">> \o Concat(ps) \o <<"$">> : ps \in PieceSeqs(BodyPieces, MaxPieces)}

InitLatex ==
    /\ NoAttachment
    /\ ProcessStart
    /\ chat = NoChat
    /\ req = NoReq
    /\ img = NoImg
    /\ text \in {[fn |-> "format_latex_for_tiptap", x |-> s, y1 |-> <<>>, y2 |-> <<>>, n |-> 0] :
                     s \in LatexInputs}

\* format_latex_for_tiptap(x)
CallLatex ==
    /\ text.fn = "format_latex_for_tiptap"
    /\ text.n = 0
    /\ text' = [text EXCEPT !.y1 = format_latex_for_tiptap(text.x), !.n = 1]
    /\ UNCHANGED <<jobVars, chat, req, img>>

\* format_latex_for_tiptap applied to what it returned
CallLatexAgain ==
    /\ text.fn = "format_latex_for_tiptap"
    /\ text.n = 1
    /\ text' = [text EXCEPT !.y2 = format_latex_for_tiptap(text.y1), !.n = 2]
    /\ UNCHANGED <<jobVars, chat, req, img>>

NextLatex ==
    \/ CallLatex
    \/ CallLatexAgain

SpecLatex == InitLatex /\ [][NextLatex]_vars

\* ---- chat_with_ai -------------------------------------------------------------
\* note_content of the request: plain text, and text with inline math
Notes == {<<"a">>, <<"$", "a", "$">>}

\* the string "updated_html" of the object the model returned: HTML the
\* rewriter leaves alone, and HTML with math
ModelHtml == {<<"a">>, <<"$", "$", "a", "$", "$">>}

\* the string "response_text" of the object the model returned: plain text,
\* and text with inline math
ModelTexts == {<<"a">>, <<"$", "a", "$">>}

\* the list "changes" of the object the model returned: one find/replace pair
ChangeList == <<[find |-> <<"a">>, replace |-> <<"$", "a", "$">>]>>

\* what generate_content does: it raises, or returns a response whose text is
\* None, text that json.loads rejects after the repair, or text that parses
\* to an object; the object has a string "updated_html", no such key, or a
\* JSON null under it, and it has a "changes" list or not
RawResponses ==
    {[NoRaw EXCEPT !.kind = k] : k \in {"raise", "notext", "unparsable"}}
        \cup {[kind |-> "json", text |-> t, htmlKind |-> "string", html |-> h, rc |-> b,
               changesKind |-> c, changes |-> IF c = "list" THEN ChangeList ELSE <<>>] :
                 t \in ModelTexts, h \in ModelHtml, b \in BOOLEAN, c \in {"absent", "list"}}
        \cup {[kind |-> "json", text |-> t, htmlKind |-> k, html |-> <<>>, rc |-> b,
               changesKind |-> c, changes |-> IF c = "list" THEN ChangeList ELSE <<>>] :
                 t \in ModelTexts, k \in {"absent", "null"}, b \in BOOLEAN, c \in {"absent", "list"}}

\* the fixed messages, each written as one character
\* "Error: Gemini API Key not configured."
ErrorNoKeyText == <<"Error: Gemini API Key not configured.">>
\* "I encountered an error processing the response."
ErrorProcessingText == <<"I encountered an error processing the response.">>
\* f"Sorry, I encountered an error: {str(e)}"
ErrorSorryText == <<"Sorry, I encountered an error: ...">>

\* lines 420-424
NoKeyResult(note) ==
    [NoResult EXCEPT !.response_text = ErrorNoKeyText, !.has_updated_html = TRUE,
                     !.updated_html = note, !.requires_confirmation = TRUE]

\* lines 497-501
ParseErrorResult(note) ==
    [NoResult EXCEPT !.response_text = ErrorProcessingText, !.has_updated_html = TRUE,
                     !.updated_html = note, !.requires_confirmation = FALSE]

\* lines 505-510
ExceptionResult(note) ==
    [NoResult EXCEPT !.response_text = ErrorSorryText, !.has_updated_html = TRUE,
                     !.updated_html = note, !.requires_confirmation = TRUE]

\* which failure, if any, the response runs into
FailureOf(raw) ==
    CASE raw.kind = "raise"      -> "adapter"
      [] raw.kind = "notext"     -> "repair"
      [] raw.kind = "unparsable" -> "parse"
      [] raw.kind = "json" /\ raw.htmlKind = "null" -> "rewrite"
      [] OTHER -> "none"

\* the object json.loads returns for the response raw
ParsedObject(raw) ==
    [response_text |-> raw.text,
     has_updated_html |-> raw.htmlKind # "absent", updated_html |-> raw.html,
     requires_confirmation |-> raw.rc,
     has_changes |-> raw.changesKind = "list", changes |-> raw.changes]

\* a pipeline that runs the rewriter over every string of the parsed object
ChatResultRewritingAll(note, raw) ==
    [ParsedObject(raw) EXCEPT !.response_text = format_latex_for_tiptap(raw.text),
                              !.updated_html = format_latex_for_tiptap(raw.html)]

\* what chat_with_ai returns for the response raw, lines 487-510
ChatResult(note, raw) ==
    CASE raw.kind \in {"raise", "notext"} -> ExceptionResult(note)
      [] raw.kind = "unparsable"          -> ParseErrorResult(note)
      [] raw.kind = "json" /\ raw.htmlKind = "null"   -> ExceptionResult(note)
      [] raw.kind = "json" /\ raw.htmlKind = "absent" -> ParsedObject(raw)
      [] OTHER ->
            [ParsedObject(raw) EXCEPT !.updated_html = format_latex_for_tiptap(raw.html)]

\* services.chat_with_ai, from the key check to the return
chat_with_ai ==
    /\ chat.pc = "request"
    /\ IF ~apiKey
       THEN /\ chat' = [chat EXCEPT !.pc = "returned", !.failure = "no_key",
                                    !.result = NoKeyResult(chat.note)]
            /\ UNCHANGED ungated
       ELSE /\ ungated' = TRUE
            /\ \E raw \in RawResponses :
                 chat' = [chat EXCEPT !.pc = "returned",
                                      !.contents = IF chat.pdf = "ok" THEN "pdf_and_prompt" ELSE "prompt",
                                      !.raw = raw,
                                      !.failure = FailureOf(raw),
                                      !.result = ChatResult(chat.note, raw)]
    /\ UNCHANGED <<status, summary, file, apiKey, thr, lock, lastCall, clock, termWrites, overlap, hit, text, req, img>>

\* the summary jobs and the gate, with a chat request served beside them
NextChat ==
    \/ Next
    \/ chat_with_ai

SpecChat == Init /\ [][NextChat]_vars

\* the requests: every note, with and without a PDF, readable or not
InitPipeline ==
    /\ status = "absent" /\ summary = NullSummary /\ file = "none"
    /\ apiKey \in BOOLEAN
    /\ ProcessStart
    /\ chat \in {[NoChat EXCEPT !.note = n, !.mode = m, !.pdf = p] :
                    n \in Notes, m \in BOOLEAN, p \in {"none", "ok", "unreadable"}}
    /\ text = NoText
    /\ req = NoReq
    /\ img = NoImg

NextPipeline == chat_with_ai

SpecPipeline == InitPipeline /\ [][NextPipeline]_vars

\* --------------------------------------------------------------------------
\* routes.py: POST /chat/decide and POST /chat/respond
\* --------------------------------------------------------------------------

\* the most attachment rows a note has, and the most entries of file_numbers
MaxAttachments == 2
MaxFileNumbers == 2

\* the sequences over S of length 0..n
SeqsUpTo(S, n) == UNION {[1..k -> S] : k \in 0..n}

\* Attachment.query.filter_by(note_id=note_id).all(): the rows of the note,
\* each written as the state of its file on disk
AttachmentLists == SeqsUpTo({"ok", "empty", "missing"}, MaxAttachments)

\* data.get('file_numbers', []): zero, the valid numbers and one past them
FileNumberLists == SeqsUpTo(0..(MaxAttachments + 1), MaxFileNumbers)

\* data.get('message'), and the rows of ChatMessage
UserMessage == <<"q">>
UserRow(t) == [sender |-> "user", text |-> t]
AssistantRow(t) == [sender |-> "assistant", text |-> t]

\* the chat of the note before the chat turn: empty, the same text left
\* without an answer by a request that failed, an older exchange, or an older
\* exchange that began with the same text
Histories == {<<>>, <<UserRow(UserMessage)>>, <<UserRow(<<"p">>), AssistantRow(<<"a">>)>>,
              <<UserRow(UserMessage), AssistantRow(<<"a">>)>>}

\* the early returns of both routes: a field is missing (400), the note is
\* not there (404)
Checks == {"ok", "bad_request", "not_found"}

\* the text of the last row a user sent, <<>> when there is none
LastUserText(history) ==
    LET users == SelectSeq(history, LAMBDA m : m.sender = "user")
    IN IF users = <<>> THEN <<>> ELSE users[Len(users)].text

\* lines 829-839: the user message is saved unless it is the last one saved
WithUserMessage(history) ==
    IF LastUserText(history) # UserMessage THEN Append(history, UserRow(UserMessage)) ELSE history

\* .limit(100), line 826
HistoryLimit == 100

\* lines 826-827: the last n rows by timestamp, put back in chronological order
LastRows(history, n) ==
    IF Len(history) <= n THEN history ELSE SubSeq(history, Len(history) - n + 1, Len(history))

\* lines 826-841: the chat_history handed to generate_ai_response: every row
\* in ascending order when the user message had to be saved, else the rows
\* read at the start
ChatHistory(history) ==
    IF LastUserText(history) # UserMessage
    THEN WithUserMessage(history)
    ELSE LastRows(history, HistoryLimit)

\* line 850
ValidIndex(num, n) == 0 < num /\ num <= n

\* lines 849-860: the numbers whose attachment is handed to
\* generate_ai_response, in the order of file_numbers
FileAttachments(file_numbers, attachments) ==
    SelectSeq(file_numbers,
              LAMBDA num : ValidIndex(num, Len(attachments)) /\ PathExists(attachments[num]))

\* the guard of the file read in the response phase: the file exists and its
\* size is not zero
Readable(f) == f = "ok"

\* the attachments whose full bytes the response phase loads
LoadedFiles(file_attachments, attachments) ==
    SelectSeq(file_attachments, LAMBDA num : Readable(attachments[num]))

\* the result of the response phase for the response raw: the parsed object
\* with its updated_html rewritten and its changes kept, or the error result
\* that leaves the document as it was
GenerationResult(note, raw) ==
    IF FailureOf(raw) # "none"
    THEN [NoResult EXCEPT !.response_text = ErrorSorryText, !.has_updated_html = TRUE,
                          !.updated_html = note, !.requires_confirmation = TRUE]
    ELSE IF raw.htmlKind = "string"
         THEN [ParsedObject(raw) EXCEPT !.updated_html = format_latex_for_tiptap(raw.html)]
         ELSE ParsedObject(raw)

\* lines 872-886: the reply is built from three keys of response_data and
\* from analyzed_files
RespondBody(response_data, analyzed_files) ==
    [NoBody EXCEPT !.kind = "generation",
                   !.result = [NoResult EXCEPT
                                  !.response_text = response_data.response_text,
                                  !.has_updated_html = response_data.has_updated_html,
                                  !.updated_html = response_data.updated_html,
                                  !.requires_confirmation = response_data.requires_confirmation],
                   !.analyzed_files = analyzed_files]

\* POST /chat/respond, lines 808-892
chat_respond ==
    /\ req.op = "respond"
    /\ req.pc = "request"
    /\ CASE req.check = "bad_request" -> req' = [req EXCEPT !.pc = "returned", !.code = 400]
         [] req.check = "not_found"   -> req' = [req EXCEPT !.pc = "returned", !.code = 404]
         [] OTHER ->
              LET fa == FileAttachments(req.file_numbers, req.attachments)
                  loaded == LoadedFiles(fa, req.attachments)
              IN \E raw \in RawResponses :
                   LET rd == GenerationResult(req.note, raw)
                   IN req' = [req EXCEPT
                                 !.pc = "returned",
                                 !.chat_history = ChatHistory(req.history),
                                 !.file_attachments = fa,
                                 !.loaded = loaded,
                                 !.acquires = @ + 1,
                                 !.calls = @ + 1,
                                 !.response_data = rd,
                                 !.history = Append(WithUserMessage(@),
                                                    AssistantRow(rd.response_text)),
                                 !.code = 200,
                                 !.body = RespondBody(rd, fa)]
    /\ UNCHANGED <<jobVars, chat, text, img>>

\* lines 683-694: one entry per attachment row; filepath is None when the
\* file is not on disk
AttachmentSummaries(attachments) ==
    [i \in 1..Len(attachments) |-> [has_filepath |-> PathExists(attachments[i])]]

\* a decision phase that asks the model whatever the list holds
NeverShortCircuit(attachment_summaries) == FALSE

\* the short-circuit of the decision phase: there are no attachments
NoAttachments(attachment_summaries) == Len(attachment_summaries) = 0

\* what the model may decide about n attachments: no file, one of them, or
\* all of them
Decisions(n) ==
    {[need_files |-> FALSE, file_numbers |-> <<>>]}
        \cup {[need_files |-> TRUE, file_numbers |-> <<i>>] : i \in 1..n}
        \cup {[need_files |-> TRUE, file_numbers |-> [i \in 1..n |-> i]]}

\* POST /chat/decide, lines 662-702
chat_decide ==
    /\ req.op = "decide"
    /\ req.pc = "request"
    /\ CASE req.check = "bad_request" -> req' = [req EXCEPT !.pc = "returned", !.code = 400]
         [] req.check = "not_found"   -> req' = [req EXCEPT !.pc = "returned", !.code = 404]
         [] OTHER ->
              LET history == Append(req.history, UserRow(UserMessage))
                  attachment_summaries == AttachmentSummaries(req.attachments)
              IN IF NoAttachments(attachment_summaries)
                 THEN req' = [req EXCEPT !.pc = "returned", !.history = history, !.code = 200,
                                         !.body = [NoBody EXCEPT !.kind = "decision"]]
                 ELSE \E d \in Decisions(Len(attachment_summaries)) :
                        req' = [req EXCEPT !.pc = "returned", !.history = history,
                                           !.acquires = @ + 1, !.calls = @ + 1,
                                           !.code = 200,
                                           !.body = [NoBody EXCEPT
                                                        !.kind = "decision",
                                                        !.need_files = d.need_files,
                                                        !.file_numbers = d.file_numbers]]
    /\ UNCHANGED <<jobVars, chat, text, img>>

\* the requests: to /chat/decide with every list of attachment rows, to
\* /chat/respond with every list of file numbers as well; every chat so far
InitRoutes ==
    /\ NoAttachment
    /\ ProcessStart
    /\ chat = NoChat
    /\ text = NoText
    /\ img = NoImg
    /\ req \in {[NoReq EXCEPT !.op = "decide", !.check = c, !.attachments = a, !.history = h,
                              !.before = h] :
                   c \in Checks, a \in AttachmentLists, h \in Histories}
               \cup {[NoReq EXCEPT !.op = "respond", !.check = c, !.attachments = a,
                                   !.file_numbers = f, !.history = h, !.before = h] :
                        c \in Checks, a \in AttachmentLists, f \in FileNumberLists,
                        h \in Histories}

\* the client goes on with the chat turn: after the reply of /chat/decide it
\* posts the same message to /chat/respond with the file numbers decided
respond_follows_decide ==
    /\ req.op = "decide"
    /\ req.pc = "returned"
    /\ req.code = 200
    /\ req' = [req EXCEPT !.op = "respond", !.pc = "request",
                          !.file_numbers = req.body.file_numbers,
                          !.code = 0, !.body = NoBody]
    /\ UNCHANGED <<jobVars, chat, text, img>>

NextRoutes ==
    \/ chat_decide
    \/ respond_follows_decide
    \/ chat_respond

SpecRoutes == InitRoutes /\ [][NextRoutes]_vars

\* --------------------------------------------------------------------------
\* image_search.py: search_and_download_images
\* --------------------------------------------------------------------------

\* the largest limit asked for, and the most results a search returns
MaxImages == 2

\* max_retries = 3
MaxRetries == 3
\* retry_delay = 5
RetryDelay == 5

\* what one attempt runs into: the search returns no result, raises an error
\* whose text holds "403" or "Ratelimit", raises another error, or returns
\* results
SearchOutcomes == {"empty", "ratelimit", "error", "results"}

RECURSIVE Pow2(_)
Pow2(n) == IF n = 0 THEN 1 ELSE 2 * Pow2(n - 1)

\* line 115
BackoffTime(attempt) == RetryDelay * Pow2(attempt)

\* a loop that goes on after an ordinary search error as well
RetryAfterAnyError(outcome) == outcome \in {"ratelimit", "error"}

\* line 112: the error is taken for a rate limit
IsRateLimit(outcome) == outcome = "ratelimit"

\* the position after `continue` or after the end of the loop body: the next
\* iteration of `for attempt in range(max_retries)`, or the end of the loop
NextIteration(attempt) == IF attempt + 1 < MaxRetries THEN "search" ELSE "close"

\* lines 10-14: the save folder is made; os.makedirs is outside every try
img_makedirs ==
    /\ img.pc = "start"
    /\ \E ok \in BOOLEAN :
         img' = [img EXCEPT !.pc = IF ok THEN "search" ELSE "raised"]
    /\ UNCHANGED <<jobVars, chat, text, req>>

\* lines 32-54 and 108-124: one attempt, from the wait before the search to
\* what the loop does with the outcome of the search
img_search ==
    /\ img.pc = "search"
    /\ \E o \in SearchOutcomes, n \in 1..MaxImages :
         /\ o # "results" => n = 1
         /\ img' =
              CASE o = "results" ->
                     [img EXCEPT !.pc = "download", !.results = n, !.idx = 0,
                                 !.log = Append(@, o)]
                [] o = "empty" ->
                     [img EXCEPT !.pc = NextIteration(img.attempt),
                                 !.attempt = @ + 1, !.log = Append(@, o)]
                [] IsRateLimit(o) /\ img.attempt < MaxRetries - 1 ->
                     [img EXCEPT !.pc = "backoff", !.wait = BackoffTime(img.attempt),
                                 !.log = Append(@, o)]
                [] OTHER ->
                     [img EXCEPT !.pc = "close", !.log = Append(@, o)]
    /\ UNCHANGED <<jobVars, chat, text, req>>

\* line 117 and the next iteration of the loop
img_backoff ==
    /\ img.pc = "backoff"
    /\ img' = [img EXCEPT !.pc = "search", !.attempt = @ + 1, !.wait = 0]
    /\ UNCHANGED <<jobVars, chat, text, req>>

\* min(len(results), limit), lines 57 and 62
ToDownload(results, limit) == IF results < limit THEN results ELSE limit

\* lines 57-106: one result of results[:limit] is handled: it has no image
\* URL, its download fails (both leave the list as it is), or it is saved;
\* after the last one the loop over the attempts is left
img_download ==
    /\ img.pc = "download"
    /\ IF img.idx < ToDownload(img.results, img.limit)
       THEN \E saved \in BOOLEAN :
              img' = [img EXCEPT !.idx = @ + 1,
                                 !.downloaded = IF saved THEN @ + 1 ELSE @]
       ELSE img' = [img EXCEPT !.pc = "close"]
    /\ UNCHANGED <<jobVars, chat, text, req>>

\* lines 126-128: session.close() and `return downloaded_images`
img_return ==
    /\ img.pc = "close"
    /\ img' = [img EXCEPT !.pc = "returned"]
    /\ UNCHANGED <<jobVars, chat, text, req>>

\* the calls: every limit from 0 to MaxImages
InitImages ==
    /\ NoAttachment
    /\ ProcessStart
    /\ chat = NoChat
    /\ text = NoText
    /\ req = NoReq
    /\ img \in {[NoImg EXCEPT !.pc = "start", !.limit = l] : l \in 0..MaxImages}

NextImages ==
    \/ img_makedirs
    \/ img_search
    \/ img_backoff
    \/ img_download
    \/ img_return

\* the function is one sequential execution that keeps running: it takes its
\* next step whenever it has one
SpecImages == InitImages /\ [][NextImages]_vars /\ WF_vars(NextImages)




\* ==========================================================================
\* Properties
\* ==========================================================================
AllowedChange ==
    { <<"pending", "processing">>, <<"processing", "complete">>,
      <<"processing", "failed">>, <<"pending", "cancelled">>,
      <<"processing", "cancelled">> }

\* C1: the persisted summary_status changes only along pending->processing,
\* processing->complete, processing->failed, pending->cancelled and
\* processing->cancelled. The reset to 'pending' that a regenerate request
\* itself makes opens a new job and is not counted as a change of the old one.
C1_OnlyLifecycleTransitions ==
    [][(status \in Statuses /\ status' \in Statuses /\ status' # status
            /\ ~regenerate_summary)
        => <<status, status'>> \in AllowedChange]_vars

\* C2: when a cancel took effect on status 'processing' while a job's model
\* call was in flight, and that call then returned successfully, the job's
\* write leaves status 'cancelled' and the cancel message in place.
C2_CancelSurvivesLateSuccess ==
    [][\A t \in Tids :
          (/\ t \in hit
           /\ thr[t].pc = "write2" /\ thr'[t].pc # "write2"
           /\ thr[t].res.kind = "text"
           /\ status = "cancelled")
          => (status' = "cancelled" /\ summary' = CancelMessage)]_vars

LastSpawned ==
    CHOOSE t \in Tids \cup {0} :
        /\ t # 0 => thr[t].pc # "idle"
        /\ \A u \in Tids : thr[u].pc # "idle" => u <= t

AllEnded == \A t \in Tids : thr[t].pc \in {"idle", "done"}

\* C3: when a regenerate was accepted while the execution of an earlier
\* regenerate was still alive, the model call of every execution returned a
\* summary, and all executions have ended with the status complete or failed,
\* then exactly one terminal write was applied since the last regenerate and
\* it carries the result of the execution spawned last.
C3_SecondRegenerateWins ==
    (/\ overlap
     /\ AllEnded
     /\ \A t \in Tids : thr[t].kind = "regen" => thr[t].res.kind = "text"
     /\ status \in {"complete", "failed"}
     /\ summary # FileNotFound)
    => (termWrites = 1 /\ summary.by = LastSpawned)

\* C4: the timestamps at which two successive calls of wait_if_needed return
\* (the call records its timestamp and returns in one step) are never less
\* than min_delay apart.
C4_ReturnsMinDelayApart ==
    [][\A t \in Tids :
          (thr[t].pc \in {"sleep", "record"} /\ thr'[t].pc = "open")
          => lastCall' - lastCall >= MinDelay]_vars

\* two calls have returned, the second after a wait
C4_Witness == lastCall >= StartClock + MinDelay

\* C5: at most one caller at a time is inside the read-modify-write of the
\* last-call timestamp (between taking the lock and recording the timestamp).
C5_OneCallerInGate ==
    Cardinality({t \in Tids : thr[t].pc \in {"sleep", "record"}}) <= 1

\* one caller is inside the gate while another one is waiting to enter
C5_Witness ==
    \E t, u \in Tids :
        /\ thr[t].pc \in {"sleep", "record"}
        /\ thr[u].pc = "summ"
        /\ apiKey

\* C6 as claimed: a thread in the sleep step of the gate does not own the lock.
C6_NoLockWhileSleeping ==
    \A t \in Tids : thr[t].pc = "sleep" => lock # t

\* C6 as amended: a thread in the sleep step of the gate owns the lock, and
\* keeps it until it has recorded the timestamp.
C6_SleepsHoldingLock ==
    \A t \in Tids : thr[t].pc \in {"sleep", "record"} => lock = t

\* a thread is sleeping out its wait inside the gate
C6_Witness ==
    \E t \in Tids : thr[t].pc = "sleep" /\ lock = t /\ clock < thr[t].wake

\* C7: a thread whose model call is in flight has recorded its timestamp and
\* released the lock; the lock is held only by a thread inside
\* wait_if_needed, so a call in flight keeps nobody out of the gate.
C7_CallAfterRelease ==
    /\ \A t \in Tids : thr[t].pc = "calling" => (thr[t].gated /\ lock # t)
    /\ lock # 0 => thr[lock].pc \in {"sleep", "record"}

\* another caller is inside the gate while a model call is in flight
C7_Witness ==
    \E t, u \in Tids :
        /\ thr[t].pc = "calling"
        /\ thr[u].pc \in {"sleep", "record"}

\* C8: every call to the model service, by a summarizer or by the chat
\* generation, is preceded in the same execution by a completed gate acquire.
C8_EveryModelCallGated == ~ungated

\* C9: a job whose model call raised never ends with status complete
\* carrying the error text.
C9_AdapterFailureNotComplete ==
    ~(status = "complete" /\ summary.kind = "error_text")

\* C10: no failure inside a background execution leaves the thread: every
\* execution is at one of the positions of run_in_thread or has ended
\* normally.
C10_NoFailureEscapes ==
    \A t \in Tids :
        thr[t].pc \in {"idle", "read1", "write1", "summ", "sleep", "record", "open",
                       "calling", "read2", "write2", "hread", "hwrite", "done"}

\* an execution ended normally after the storage error of its try block was
\* caught and its handler wrote 'failed'
C10_Witness ==
    \E t \in Tids : thr[t].pc = "done" /\ status = "failed" /\ summary = FailedMessage(t)

\* C16: a cancel request on status pending or processing leaves, in the same
\* request, status 'cancelled' and the fixed cancel message; on status
\* complete, failed or cancelled it leaves status and summary as they were.
C16_CancelOnlyWhileRunning ==
    [][cancel_summary =>
          IF status \in {"pending", "processing"}
          THEN status' = "cancelled" /\ summary' = CancelMessage
          ELSE status' = status /\ summary' = summary]_vars

\* a cancel took effect while an execution was alive
C16_Witness ==
    /\ status = "cancelled"
    /\ summary = CancelMessage
    /\ \E t \in Tids : thr[t].pc \notin {"idle", "done"}

\* C17: regenerate is enabled in every status while the file exists (and a
\* thread is left to start); a regenerate request that finds the file leaves
\* status pending and summary null and has started exactly one execution,
\* leaving the others as they were.
C17_RegenerateResetsAndSpawnsOne ==
    /\ [](\A s \in Statuses :
            (status = s /\ file \in {"ok", "empty"} /\ FreeTid # 0) => ENABLED regenerate_summary)
    /\ [][(regenerate_summary /\ file \in {"ok", "empty"}) =>
            /\ status' = "pending"
            /\ summary' = NullSummary
            /\ Cardinality({t \in Tids : thr'[t] # thr[t]}) = 1
            /\ \A t \in Tids : thr'[t] # thr[t] =>
                   (thr[t].pc = "idle" /\ thr'[t].pc = "read1" /\ thr'[t].kind = "regen")]_vars

\* a regenerate was accepted on a summarized attachment and its execution has
\* not begun
C17_Witness ==
    /\ status = "pending"
    /\ summary = NullSummary
    /\ \E t \in Tids : thr[t].kind = "regen" /\ thr[t].pc = "read1"

\* C18: a regenerate request for an attachment whose file is not on disk
\* starts no execution, touches neither the gate nor the model service, and
\* leaves status failed.
C18_MissingFileFailsFast ==
    [][(regenerate_summary /\ Exists /\ file = "missing") =>
            /\ thr' = thr
            /\ lock' = lock /\ lastCall' = lastCall
            /\ ungated' = ungated
            /\ status' = "failed"]_vars

\* a regenerate found the file missing
C18_Witness == status = "failed" /\ summary = FileNotFound

\* C19: an execution goes on to write 'processing' only if the status it
\* has just read is pending.
C19_ProcessingOnlyFromPending ==
    [][\A t \in Tids :
          (thr[t].pc = "read1" /\ thr'[t].pc = "write1") => QueryGet = "pending"]_vars

\* C20: the failure write of an execution never replaces status cancelled or
\* complete by failed.
C20_FailedNeverOverwritesFinal ==
    [][\A t \in Tids :
          (thr[t].pc = "hwrite" /\ thr'[t].pc # "hwrite" /\ status \in {"cancelled", "complete"})
          => status' # "failed"]_vars

NoFence(x) == \A i \in 1..Len(x) : ~StartsWith(SubSeq(x, i, Len(x)), Fence)

\* C12: applying clean_json_string to what it returned returns the same
\* string, for every argument.
C12_RepairIdempotent ==
    (text.fn = "clean_json_string" /\ text.n = 2) => text.y2 = text.y1

\* the repair was applied twice to an argument it had to change, both by
\* removing a fence and by doubling a backslash
C12_Witness ==
    /\ text.fn = "clean_json_string" /\ text.n = 2
    /\ ~NoFence(text.x)
    /\ text.y1 # StripFences(text.x)
    /\ text.y2 = text.y1

BackslashAt(s) == {i \in 1..Len(s) : s[i] = BS}

\* the backslash at position i of s is followed by one of " / n r, or by u
\* and four hex digits
FollowedByKept(s, i) ==
    /\ i < Len(s)
    /\ \/ s[i + 1] \in {QUOTE, "/", "n", "r"}
       \/ /\ s[i + 1] = "u"
          /\ i + 5 <= Len(s)
          /\ \A k \in (i + 2)..(i + 5) : s[k] \in {"0", "f"}

\* the escapes of a JSON string: \" \\ \/ \b \f \n \r \t (and \uXXXX)
StandardEscapes == {QUOTE, BS, "/", "b", "f", "n", "r", "t"}

\* b is the inside of a JSON string literal whose two-character escapes are
\* among esc
RECURSIVE JsonChars(_, _)
JsonChars(b, esc) ==
    IF b = <<>> THEN TRUE
    ELSE IF Head(b) = QUOTE THEN FALSE
    ELSE IF Head(b) # BS THEN JsonChars(Tail(b), esc)
    ELSE IF Len(b) >= 2 /\ b[2] \in esc THEN JsonChars(SubSeq(b, 3, Len(b)), esc)
    ELSE IF Len(b) >= 6 /\ b[2] = "u" /\ \A k \in 3..6 : b[k] \in HexDigits
         THEN JsonChars(SubSeq(b, 7, Len(b)), esc)
    ELSE FALSE

\* x is a JSON document that consists of one string literal
IsJsonString(x, esc) ==
    /\ Len(x) >= 2
    /\ x[1] = QUOTE /\ x[Len(x)] = QUOTE
    /\ JsonChars(SubSeq(x, 2, Len(x) - 1), esc)

RECURSIVE WellEscaped(_)
WellEscaped(y) ==
    IF y = <<>> THEN TRUE
    ELSE IF Head(y) # BS THEN WellEscaped(Tail(y))
    ELSE IF Len(y) >= 2 /\ y[2] \in {BS, QUOTE, "/", "n", "r"} THEN WellEscaped(SubSeq(y, 3, Len(y)))
    ELSE IF Len(y) >= 6 /\ y[2] = "u" /\ \A k \in 3..6 : y[k] \in {"0", "f"}
         THEN WellEscaped(SubSeq(y, 7, Len(y)))
    ELSE FALSE

NotBackslash(c) == c # BS

C13_LatexIdempotent ==
    (text.fn = "format_latex_for_tiptap" /\ text.n = 2) => text.y2 = text.y1

\* C11: whenever chat_with_ai returns after a failure (no API key, the model
\* call raised, the response could not be repaired, parsed or rewritten), the
\* result carries an error text, the note content of the request as
\* updated_html, and requires_confirmation = TRUE.
C11_FailureResultAsksConfirmation ==
    (chat.pc = "returned" /\ chat.failure # "none") =>
        /\ chat.result.response_text \in {ErrorNoKeyText, ErrorProcessingText, ErrorSorryText}
        /\ chat.result.has_updated_html /\ chat.result.updated_html = chat.note
        /\ chat.result.requires_confirmation = TRUE

\* C21: the write of 'complete' by an execution of regenerate, which tests
\* the status it read for 'processing', is atomic with that test: when a
\* cancel was committed after the test, the write leaves status cancelled and
\* the cancel message in place.
C21_GuardedWriteIsAtomic ==
    [][\A t \in Tids :
          (/\ thr[t].kind = "regen"
           /\ thr[t].pc = "write2" /\ thr'[t].pc # "write2"
           /\ status = "cancelled")
          => (status' = "cancelled" /\ summary' = CancelMessage)]_vars

\* C22: while the status is complete, no step of a background execution
\* changes the status or the summary.
C22_CompleteIsFinalForJobs ==
    [][(status = "complete" /\ (status' # status \/ summary' # summary))
        => (regenerate_summary \/ delete_attachment)]_vars

\* C23: once the attachment is deleted, its row stays deleted and unchanged,
\* and no background execution ends with an error.
C23_WritesAfterDeleteAreNoOps ==
    [][status = "deleted" =>
          /\ status' = "deleted" /\ summary' = summary
          /\ \A t \in Tids : thr'[t].pc # "crashed"]_vars

\* the attachment was deleted while an execution was about to write, and the
\* execution has ended
C23_Witness ==
    /\ status = "deleted"
    /\ \E t \in Tids : thr[t].pc \in {"write1", "write2", "hwrite"}
    /\ \E t \in Tids : thr[t].pc = "done"

\* C24: an attachment whose status is complete, failed or cancelled has a
\* summary that is not null.
C24_TerminalStatusHasSummary ==
    status \in {"complete", "failed", "cancelled"} => summary # NullSummary

\* an execution wrote complete with the text it got for a file it could not
\* open
C24_Witness ==
    /\ status = "complete"
    /\ summary.kind = "file_error_text"

\* C25: an execution sends the request to the model service only for a file
\* that is on disk and is not empty.
C25_NoCallForMissingOrEmptyFile ==
    [][\A t \in Tids :
          (thr[t].pc = "open" /\ thr'[t].pc = "calling") => file = "ok"]_vars

\* C28: when the response parsed, chat_with_ai returns response_text,
\* requires_confirmation and changes exactly as parsed, and updated_html, if
\* the object has one, as the rewriter returns it; when the response did not
\* parse, it returns the note content as it was passed in, not rewritten.
C28_RewriterOnlyOnUpdatedHtml ==
    /\ (chat.pc = "returned" /\ chat.raw.kind = "json" /\ chat.failure = "none") =>
          /\ chat.result.response_text = chat.raw.text
          /\ chat.result.requires_confirmation = chat.raw.rc
          /\ chat.result.has_changes = (chat.raw.changesKind = "list")
          /\ chat.result.changes = chat.raw.changes
          /\ chat.result.has_updated_html = (chat.raw.htmlKind = "string")
          /\ chat.result.updated_html = format_latex_for_tiptap(chat.raw.html)
    /\ (chat.pc = "returned" /\ chat.failure = "parse") =>
          /\ chat.result.response_text = ErrorProcessingText
          /\ chat.result.updated_html = chat.note
          /\ ~chat.result.has_changes

\* a response parsed whose response_text holds math that was left as it is,
\* whose updated_html held math that was rewritten, and that has a changes
\* list
C28_Witness ==
    /\ chat.pc = "returned" /\ chat.raw.kind = "json" /\ chat.failure = "none"
    /\ "$" \in Chars(chat.raw.text)
    /\ chat.result.response_text = chat.raw.text
    /\ chat.raw.htmlKind = "string"
    /\ chat.result.updated_html # chat.raw.html
    /\ chat.result.has_changes

\* C29: for every non-empty body without a dollar sign, the rewriter returns
\* for $$body$$ one block-math element whose data-latex is body, and for
\* $body$ one inline-math element whose data-latex is body; no dollar sign is
\* left.
C29_DollarSpansBecomeMathElements ==
    (text.fn = "format_latex_for_tiptap" /\ text.n >= 1) =>
        LET x == text.x
            n == Len(x)
        IN /\ (/\ n >= 5
               /\ SubSeq(x, 1, 2) = <<"$", "$">> /\ SubSeq(x, n - 1, n) = <<"$", "$">>
               /\ "$" \notin Chars(SubSeq(x, 3, n - 2)))
              => text.y1 = <<DivOpen>> \o SubSeq(x, 3, n - 2) \o <<DivClose>>
           /\ (/\ n >= 3
               /\ x[1] = "$" /\ x[n] = "$"
               /\ "$" \notin Chars(SubSeq(x, 2, n - 1)))
              => text.y1 = <<SpanOpen>> \o SubSeq(x, 2, n - 1) \o <<SpanClose>>

C27_ChangesReachTheCaller ==
    (req.op = "respond" /\ req.pc = "returned" /\ req.code = 200
        /\ req.response_data.has_changes) =>
        /\ req.body.result.has_changes
        /\ req.body.result.changes = req.response_data.changes

\* C30: when the note has no attachment, the decision phase answers that no
\* file is needed, and it neither calls the model service nor acquires the
\* cooldown gate.
C30_NoAttachmentsNoCall ==
    (req.op = "decide" /\ req.pc = "returned" /\ req.check = "ok"
        /\ Len(req.attachments) = 0) =>
        /\ req.code = 200
        /\ req.body.kind = "decision"
        /\ ~req.body.need_files /\ req.body.file_numbers = <<>>
        /\ req.calls = 0 /\ req.acquires = 0

\* C30: a decision was returned for a note without attachments
C30_Witness ==
    /\ req.op = "decide" /\ req.pc = "returned" /\ req.code = 200
    /\ Len(req.attachments) = 0
    /\ req.history # <<>>

\* C35: an attachment whose status is pending or processing has a null
\* summary: a non-terminal status is never paired with a stale summary or
\* with the cancel message.
C35_NonTerminalStatusHasNullSummary ==
    status \in {"pending", "processing"} => summary = NullSummary

\* a is the end of b
IsSuffix(a, b) == Len(a) <= Len(b) /\ a = SubSeq(b, Len(b) - Len(a) + 1, Len(b))

\* C31: the chat history handed to the generation call is in chronological
\* order, oldest first (it is an end of the rows stored when the call is
\* made), and its last row is the current user message, whether the respond
\* request saved the message itself or found it saved.
C31_HistoryEndsWithUserMessage ==
    (req.op = "respond" /\ req.pc = "returned" /\ req.code = 200) =>
        /\ IsSuffix(req.chat_history, SubSeq(req.history, 1, Len(req.history) - 1))
        /\ req.chat_history # <<>>
        /\ req.chat_history[Len(req.chat_history)] = UserRow(UserMessage)

UserRows(history) == Len(SelectSeq(history, LAMBDA m : m.sender = "user"))

\* C37: a chat turn stores its user message exactly once: when the respond
\* request has returned, alone or after a decide request with the same
\* message, the chat holds one user row more than before the turn.
C37_UserMessageStoredOncePerTurn ==
    (req.op = "respond" /\ req.pc = "returned" /\ req.code = 200) =>
        UserRows(req.history) = UserRows(req.before) + 1

\* the attempts made so far number at most three, every attempt that was
\* followed by another one found nothing or hit the rate limit, and what is
\* returned is a list of at most limit images
RetryDiscipline ==
    /\ Len(img.log) <= 3
    /\ \A i \in 1..(Len(img.log) - 1) : img.log[i] \in {"empty", "ratelimit"}
    /\ img.pc = "returned" => img.downloaded \in 0..img.limit

\* C38: search_and_download_images never raises, makes at most 3 search
\* attempts, retries only after an empty result or a rate-limit error, stops
\* at once on any other search error and after the first attempt that
\* returned results, and returns a list.
C38_NeverRaises ==
    /\ img.pc # "raised"
    /\ RetryDiscipline

\* C38, amended: an error of os.makedirs leaves the function; once the save
\* folder is made, the function keeps to the retry discipline, raises nothing
\* and goes on to return its list.
C38_ReturnsOnceFolderIsMade ==
    /\ [](RetryDiscipline)
    /\ [][img'.pc = "raised" => img.pc = "start"]_vars
    /\ (img.pc = "search" ~> img.pc = "returned")

\* C38: the function returned images after a rate-limit error and an empty
\* result
C38_Witness ==
    /\ img.pc = "returned"
    /\ img.log = <<"ratelimit", "empty", "results">>
    /\ img.downloaded >= 1

\* C32: every call of wait_if_needed returns: an execution that has reached
\* the gate, waiting for the lock or sleeping inside it, goes on to the
\* position after the gate.
C32_EveryGateCallReturns ==
    \A t \in Tids :
        (apiKey /\ thr[t].pc \in {"summ", "sleep", "record"}) ~> (thr[t].pc = "open")

\* C32: an execution sleeps inside the gate, its wake time still ahead, behind
\* another execution that has already gone through the gate
C32_Witness ==
    \E t, u \in Tids :
        /\ apiKey /\ thr[t].pc = "sleep" /\ lock = t /\ clock < thr[t].wake
        /\ thr[u].gated

\* the execution t is not running: it was never started, or it has ended
Ended(t) == thr[t].pc \in {"idle", "done", "crashed"}

\* C34: every background execution that was started ends, and once none is
\* running the status of an existing attachment is complete, failed or
\* cancelled: no attachment is left in pending or processing with no
\* execution that will move it.
C34_NoAttachmentLeftUnfinished ==
    /\ \A t \in Tids : ~Ended(t) ~> Ended(t)
    /\ []((Exists /\ \A t \in Tids : Ended(t)) => status \in {"complete", "failed", "cancelled"})

\* a cancel leaves every background execution where it is, and an execution
\* whose attachment is cancelled still goes through the cooldown gate, sends
\* its request to the model service if the file is there, and ends
CallNotInterrupted ==
    /\ [][cancel_summary => UNCHANGED thr]_vars
    /\ \A t \in Tids :
          (status = "cancelled" /\ apiKey /\ thr[t].pc \in {"summ", "sleep", "record"})
              ~> (thr[t].pc = "open")
    /\ [][\A t \in Tids :
            (status = "cancelled" /\ PathExists(file)
                /\ thr[t].pc = "open" /\ thr'[t].pc # "open")
            => thr'[t].pc = "calling"]_vars
    /\ \A t \in Tids : (status = "cancelled" /\ ~Ended(t)) ~> Ended(t)

\* no step of a background execution changes the status or the summary of a
\* cancelled attachment
WriteBackSuppressed ==
    [][(status = "cancelled" /\ \E t \in Tids : Thread(t))
        => (status' = "cancelled" /\ summary' = summary)]_vars

\* C33: cancelling a job does not interrupt or prevent its model call: the
\* execution of a cancelled attachment still passes the cooldown gate, makes
\* the call and runs to its end, and only the write-back of its result is
\* suppressed.
C33_CancelSuppressesOnlyTheWriteBack ==
    /\ CallNotInterrupted
    /\ WriteBackSuppressed

\* C36: a status, cancel, regenerate or delete request made by a user who
\* does not own the attachment's note is answered 403 and leaves the status,
\* the summary, the file and the row as they are and starts no background
\* execution.
C36_OtherUsersAreRejected ==
    [][\A u \in Users \ {Owner} :
          (\/ get_attachment_status(u)
           \/ regenerate_summary_by(u)
           \/ cancel_summary_by(u)
           \/ delete_attachment_by(u))
          => (/\ req'.code = 403
              /\ UNCHANGED <<status, summary, file, thr>>)]_vars

\* C36: the regenerate request of another user was rejected while the
\* owner's job was running
C36_Witness ==
    /\ req.op = "regenerate" /\ req.code = 403
    /\ status = "processing"
    /\ \E t \in Tids : thr[t].pc = "calling"
====
